---- MODULE Spec2Model ----
(***************************************************************************)
(* Model of pydantic_xml/serializers/factories/homogeneous.py:             *)
(* HomogeneousSerializerFactory and its Text / Attribute / Element         *)
(* serializers for homogeneous collection fields.                          *)
(*                                                                         *)
(* Representation.  A string is a sequence of one-character strings, the   *)
(* empty string is <<>>.  Python's None in a string-typed position (a      *)
(* node's text, an attribute, a null collection element) is None, a value  *)
(* that is no string.  An Optional[List] (a collection value, the result   *)
(* of deserialize) is Absent or Present(items).                            *)
(***************************************************************************)
EXTENDS Integers, Sequences, FiniteSets, TLC

VARIABLES node, last, rt, bld, lp

vars == <<node, last, rt, bld, lp>>

\* ------------------------------------------------------------- bounds
MaxStrLen == 2
MaxSeq == 2
MaxChildren == 2
MaxLoopChildren == 3
MaxCalls == 5

\* ------------------------------------------------------------- values
None == <<"None">>
Absent == [some |-> FALSE, items |-> <<>>]
Present(items) == [some |-> TRUE, items |-> items]

Alphabet == {"a", " "}
Whitespace == {" ", "\t", "\n", "\r", "\f"}

SeqsUpTo(S, n) == UNION {[1..k -> S] : k \in 0..n}

\* str.split() without arguments: split on runs of whitespace, no empty
\* strings in the result.
RECURSIVE splitFrom(_, _, _, _)
splitFrom(s, i, cur, acc) ==
    IF i > Len(s)
    THEN IF cur = <<>> THEN acc ELSE Append(acc, cur)
    ELSE IF s[i] \in Whitespace
         THEN splitFrom(s, i + 1, <<>>, IF cur = <<>> THEN acc ELSE Append(acc, cur))
         ELSE splitFrom(s, i + 1, Append(cur, s[i]), acc)

split(s) == splitFrom(s, 1, <<>>, <<>>)

\* join with the separator left out
RECURSIVE join_NoSeparator(_)
join_NoSeparator(strs) ==
    IF strs = <<>> THEN <<>> ELSE strs[1] \o join_NoSeparator(Tail(strs))

\* " ".join(strs)
RECURSIVE join(_)
join(strs) ==
    IF strs = <<>> THEN <<>>
    ELSE IF Len(strs) = 1 THEN strs[1]
    ELSE strs[1] \o <<" ">> \o join(Tail(strs))

\* XmlEncoder.encode on a str: a str is its own textual representation.
encode(val) == val

RECURSIVE encodeAll(_)
encodeAll(vals) ==
    IF vals = <<>> THEN <<>> ELSE <<encode(Head(vals))>> \o encodeAll(Tail(vals))

\* ------------------------------------------------------------- tree node
attr_name == "attr"
OtherAttr == "other"
AttrNames == {attr_name, OtherAttr}
element_name == "item"
OtherTag == "other"

EmptyNode == [text |-> None, attrib |-> [a \in AttrNames |-> None], children |-> <<>>]

set_text(element, text) == [element EXCEPT !.text = text]
pop_text(element) == [value |-> element.text, node |-> [element EXCEPT !.text = None]]
set_attribute(element, name, value) == [element EXCEPT !.attrib[name] = value]
pop_attrib(element, name) ==
    [value |-> element.attrib[name], node |-> [element EXCEPT !.attrib[name] = None]]

\* The inner (scalar element) serializer the generic builder returns for the
\* item type: serialize appends one child with the resolved tag, deserialize
\* removes the next child if it carries the tag and returns its text.
inner_serialize(element, val, skip_empty) ==
    IF val = None THEN element
    ELSE [element EXCEPT !.children = Append(@, [tag |-> element_name, text |-> encode(val)])]

inner_deserialize(element) ==
    IF element.children # <<>> /\ Head(element.children).tag = element_name
    THEN [value |-> Head(element.children).text,
          node |-> [element EXCEPT !.children = Tail(@)]]
    ELSE [value |-> None, node |-> element]

\* ------------------------------------------------------------- Text
TextSerializer_serialize(element, value, skip_empty) ==
    IF ~value.some \/ (skip_empty /\ Len(value.items) = 0)
    THEN [node |-> element, ret |-> element, enc |-> <<>>, inner |-> <<>>]
    ELSE LET encoded == join(encodeAll(value.items))
             written == set_text(element, encoded)
         IN [node |-> written, ret |-> written, enc |-> value.items, inner |-> <<>>]

\* deserialize answering absent, not empty, for a node without text
TextSerializer_deserialize_NoTextAbsent(element, present) ==
    IF ~present
    THEN [node |-> element, ret |-> Absent, inner |-> <<>>]
    ELSE LET popped == pop_text(element)
         IN IF popped.value = None
            THEN [node |-> popped.node, ret |-> Absent, inner |-> <<>>]
            ELSE [node |-> popped.node, ret |-> Present(split(popped.value)), inner |-> <<>>]

TextSerializer_deserialize(element, present) ==
    IF ~present
    THEN [node |-> element, ret |-> Absent, inner |-> <<>>]
    ELSE LET popped == pop_text(element)
         IN IF popped.value = None
            THEN [node |-> popped.node, ret |-> Present(<<>>), inner |-> <<>>]
            ELSE [node |-> popped.node, ret |-> Present(split(popped.value)), inner |-> <<>>]

\* ------------------------------------------------------------- Attribute
\* serialize without the skip_empty short-circuit
AttributeSerializer_serialize_NoSkipCheck(element, value, skip_empty) ==
    IF ~value.some
    THEN [node |-> element, ret |-> element, enc |-> <<>>, inner |-> <<>>]
    ELSE LET encoded == join(encodeAll(value.items))
             written == set_attribute(element, attr_name, encoded)
         IN [node |-> written, ret |-> written, enc |-> value.items, inner |-> <<>>]

AttributeSerializer_serialize(element, value, skip_empty) ==
    IF ~value.some \/ (skip_empty /\ Len(value.items) = 0)
    THEN [node |-> element, ret |-> element, enc |-> <<>>, inner |-> <<>>]
    ELSE LET encoded == join(encodeAll(value.items))
             written == set_attribute(element, attr_name, encoded)
         IN [node |-> written, ret |-> written, enc |-> value.items, inner |-> <<>>]

\* deserialize reading the attribute without popping it
AttributeSerializer_deserialize_NoPop(element, present) ==
    IF ~present
    THEN [node |-> element, ret |-> Absent, inner |-> <<>>]
    ELSE LET value == element.attrib[attr_name]
         IN IF value = None
            THEN [node |-> element, ret |-> Present(<<>>), inner |-> <<>>]
            ELSE [node |-> element, ret |-> Present(split(value)), inner |-> <<>>]

AttributeSerializer_deserialize(element, present) ==
    IF ~present
    THEN [node |-> element, ret |-> Absent, inner |-> <<>>]
    ELSE LET popped == pop_attrib(element, attr_name)
         IN IF popped.value = None
            THEN [node |-> popped.node, ret |-> Present(<<>>), inner |-> <<>>]
            ELSE [node |-> popped.node, ret |-> Present(split(popped.value)), inner |-> <<>>]

\* ------------------------------------------------------------- Element
\* null elements skipped whatever skip_empty says
SkipsElement_Always(skip_empty, val) == val = None

\* `if skip_empty and val is None: continue`
SkipsElement(skip_empty, val) == skip_empty /\ val = None

RECURSIVE serializeLoop(_, _, _, _)
serializeLoop(element, vals, skip_empty, calls) ==
    IF vals = <<>> THEN [node |-> element, inner |-> calls]
    ELSE IF SkipsElement(skip_empty, Head(vals))
         THEN serializeLoop(element, Tail(vals), skip_empty, calls)
         ELSE serializeLoop(inner_serialize(element, Head(vals), skip_empty),
                            Tail(vals), skip_empty, Append(calls, Head(vals)))

ElementSerializer_serialize(element, value, skip_empty) ==
    IF ~value.some
    THEN [node |-> element, ret |-> element, enc |-> <<>>, inner |-> <<>>]
    ELSE IF skip_empty /\ Len(value.items) = 0
    THEN [node |-> element, ret |-> element, enc |-> <<>>, inner |-> <<>>]
    ELSE LET r == serializeLoop(element, value.items, skip_empty, <<>>)
         IN [node |-> r.node, ret |-> r.node, enc |-> <<>>, inner |-> r.inner]

\* a loop that does not stop at an absent result
LoopContinues_Always(value) == TRUE

\* `while (value := ...) is not None`
LoopContinues(value) == value # None

\* `return result`
ReturnOf_Result(result) == Present(result)

\* `return result or None`
ReturnOf(result) == IF result = <<>> THEN Absent ELSE Present(result)

RECURSIVE deserializeLoop(_, _, _)
deserializeLoop(element, result, log) ==
    LET r == inner_deserialize(element)
    IN IF LoopContinues(r.value)
       THEN deserializeLoop(r.node, Append(result, r.value), Append(log, r.value))
       ELSE [node |-> r.node, result |-> result, inner |-> Append(log, r.value)]

ElementSerializer_deserialize(element, present) ==
    IF ~present
    THEN [node |-> element, ret |-> Absent, inner |-> <<>>]
    ELSE LET r == deserializeLoop(element, <<>>, <<>>)
         IN [node |-> r.node, ret |-> ReturnOf(r.result), inner |-> r.inner]

\* ------------------------------------------------------------- dispatch
Variants == {"Text", "Attribute", "Element"}

serialize(variant, element, value, skip_empty) ==
    CASE variant = "Text" -> TextSerializer_serialize(element, value, skip_empty)
      [] variant = "Attribute" -> AttributeSerializer_serialize(element, value, skip_empty)
      [] variant = "Element" -> ElementSerializer_serialize(element, value, skip_empty)

deserialize(variant, element, present) ==
    CASE variant = "Text" -> TextSerializer_deserialize(element, present)
      [] variant = "Attribute" -> AttributeSerializer_deserialize(element, present)
      [] variant = "Element" -> ElementSerializer_deserialize(element, present)

\* ------------------------------------------------------------- one node,
\* the fields of one model encoding into it and decoding from it
NodeToken == <<"a">>
TAValues == {Absent} \cup {Present(l) : l \in SeqsUpTo({NodeToken}, MaxSeq)}
ElValues == {Absent} \cup {Present(l) : l \in SeqsUpTo({NodeToken, None}, MaxSeq)}
NodeTexts == {None} \cup {join(l) : l \in SeqsUpTo({NodeToken}, MaxSeq)}
NodeChildren ==
    SeqsUpTo({[tag |-> element_name, text |-> NodeToken], [tag |-> OtherTag, text |-> <<>>]},
             MaxChildren)
Nodes ==
    {[text |-> t, attrib |-> [a \in AttrNames |-> IF a = attr_name THEN x ELSE o], children |-> c] :
        t \in NodeTexts, x \in NodeTexts, o \in {None, NodeToken}, c \in NodeChildren}

NoLast == [op |-> "none"]
RtIdle == [pc |-> "idle"]
BldIdle == [pc |-> "idle"]
LpIdle == [pc |-> "idle"]

NonNull(v) == v # None

Init ==
    /\ node \in Nodes
    /\ last = NoLast
    /\ rt = RtIdle
    /\ bld = BldIdle
    /\ lp = LpIdle

\* A node holds at most MaxChildren children: a serialize that would exceed
\* that is not taken.
Serialize(variant, value, skip_empty) ==
    LET r == serialize(variant, node, value, skip_empty)
    IN /\ Len(r.node.children) <= MaxChildren
       /\ node' = r.node
       /\ last' = [op |-> "serialize", variant |-> variant, present |-> TRUE,
                   value |-> value, skip_empty |-> skip_empty, before |-> node,
                   ret |-> r.ret, enc |-> r.enc, inner |-> r.inner]
       /\ UNCHANGED <<rt, bld, lp>>

TextSerialize == \E v \in TAValues, s \in BOOLEAN : Serialize("Text", v, s)
AttributeSerialize == \E v \in TAValues, s \in BOOLEAN : Serialize("Attribute", v, s)
ElementSerialize == \E v \in ElValues, s \in BOOLEAN : Serialize("Element", v, s)

Deserialize(variant, present) ==
    LET r == deserialize(variant, node, present)
    IN /\ node' = r.node
       /\ last' = [op |-> "deserialize", variant |-> variant, present |-> present,
                   before |-> node, ret |-> r.ret, inner |-> r.inner]
       /\ UNCHANGED <<rt, bld, lp>>

TextDeserialize == \E p \in BOOLEAN : Deserialize("Text", p)
AttributeDeserialize == \E p \in BOOLEAN : Deserialize("Attribute", p)
ElementDeserialize == \E p \in BOOLEAN : Deserialize("Element", p)

Next ==
    \/ TextSerialize
    \/ AttributeSerialize
    \/ ElementSerialize
    \/ TextDeserialize
    \/ AttributeDeserialize
    \/ ElementDeserialize

Spec == Init /\ [][Next]_vars

\* ------------------------------------------------------------- claims on Spec
HasMatchingChild(children) == \E i \in 1..Len(children) : children[i].tag = element_name

ShortCircuits(value, skip_empty) == ~value.some \/ (skip_empty /\ Len(value.items) = 0)

\* C2 (as amended): deserialize on an absent node returns absent for all three
\* variants; on a present node without text the Text variant returns the empty
\* sequence, without the attribute the Attribute variant returns the empty
\* sequence, and without matching children the Element variant returns absent.
C2_EmptinessVsAbsence ==
    last.op = "deserialize" =>
        /\ ~last.present => last.ret = Absent
        /\ (last.present /\ last.variant = "Text" /\ last.before.text = None)
               => last.ret = Present(<<>>)
        /\ (last.present /\ last.variant = "Attribute" /\ last.before.attrib[attr_name] = None)
               => last.ret = Present(<<>>)
        /\ (last.present /\ last.variant = "Element" /\ ~HasMatchingChild(last.before.children))
               => last.ret = Absent

\* C2 as stated: all three variants return the empty sequence on a present node
\* with nothing to read, and absent on an absent node.
C2_AsStated ==
    last.op = "deserialize" =>
        /\ ~last.present => last.ret = Absent
        /\ (last.present /\ last.variant = "Text" /\ last.before.text = None)
               => last.ret = Present(<<>>)
        /\ (last.present /\ last.variant = "Attribute" /\ last.before.attrib[attr_name] = None)
               => last.ret = Present(<<>>)
        /\ (last.present /\ last.variant = "Element" /\ ~HasMatchingChild(last.before.children))
               => last.ret = Present(<<>>)

C2_Witness ==
    /\ last.op = "deserialize"
    /\ last.present
    /\ last.variant = "Element"
    /\ last.before.text # None
    /\ ~HasMatchingChild(last.before.children)
    /\ last.ret = Absent

\* C4: serialize with an absent value, or with skip_empty and an empty
\* collection, leaves text, attributes and children as they were, calls neither
\* the encoder nor the inner serializer, and returns the node it was given.
C4_ShortCircuitFrame ==
    (last.op = "serialize" /\ ShortCircuits(last.value, last.skip_empty)) =>
        /\ node = last.before
        /\ last.enc = <<>>
        /\ last.inner = <<>>
        /\ last.ret = last.before

C4_Witness ==
    /\ last.op = "serialize"
    /\ last.variant = "Text"
    /\ last.skip_empty
    /\ last.value = Present(<<>>)
    /\ last.before.text # None
    /\ last.before.children # <<>>

\* C8: Element serialize that is not short-circuited calls the inner serializer
\* once per element in iteration order, leaving out the null elements exactly
\* when skip_empty is set.
C8_InnerCallsInOrder ==
    (last.op = "serialize" /\ last.variant = "Element"
        /\ ~ShortCircuits(last.value, last.skip_empty)) =>
        last.inner = IF last.skip_empty
                     THEN SelectSeq(last.value.items, NonNull)
                     ELSE last.value.items

C8_Witness ==
    /\ last.op = "serialize"
    /\ last.variant = "Element"
    /\ ~last.skip_empty
    /\ last.value = Present(<<None, NodeToken>>)
    /\ last.inner = <<None, NodeToken>>

\* C9: Text deserialize on a present node removes the text and leaves the
\* attributes and children alone; Attribute deserialize removes its attribute
\* and leaves the text, the children and the other attributes alone; a
\* deserialize that finds its data already taken returns the empty sequence.
C9_PopOnRead ==
    (last.op = "deserialize" /\ last.present) =>
        /\ last.variant = "Text" =>
              /\ node.text = None
              /\ node.attrib = last.before.attrib
              /\ node.children = last.before.children
              /\ last.before.text = None => last.ret = Present(<<>>)
        /\ last.variant = "Attribute" =>
              /\ node.attrib[attr_name] = None
              /\ node.attrib[OtherAttr] = last.before.attrib[OtherAttr]
              /\ node.text = last.before.text
              /\ node.children = last.before.children
              /\ last.before.attrib[attr_name] = None => last.ret = Present(<<>>)

C9_Witness ==
    /\ last.op = "deserialize"
    /\ last.present
    /\ last.variant = "Text"
    /\ last.before.text = join(<<NodeToken, NodeToken>>)
    /\ last.ret = Present(<<NodeToken, NodeToken>>)
    /\ node.attrib[attr_name] # None
    /\ node.children # <<>>
    /\ node.text = None

\* ------------------------------------------------------------- round trip
RTStrings == SeqsUpTo(Alphabet, MaxStrLen)
RTValues == SeqsUpTo(RTStrings, MaxSeq)

InitRT ==
    /\ node = EmptyNode
    /\ last = NoLast
    /\ rt \in {[pc |-> "start", variant |-> v, S |-> S, skip_empty |-> s, ret |-> Absent] :
                  v \in Variants, S \in RTValues, s \in BOOLEAN}
    /\ bld = BldIdle
    /\ lp = LpIdle

RTSerialize ==
    /\ rt.pc = "start"
    /\ node' = serialize(rt.variant, node, Present(rt.S), rt.skip_empty).node
    /\ rt' = [rt EXCEPT !.pc = "serialized"]
    /\ UNCHANGED <<last, bld, lp>>

RTDeserialize ==
    /\ rt.pc = "serialized"
    /\ LET r == deserialize(rt.variant, node, TRUE)
       IN /\ node' = r.node
          /\ rt' = [rt EXCEPT !.pc = "done", !.ret = r.ret]
    /\ UNCHANGED <<last, bld, lp>>

NextRT == RTSerialize \/ RTDeserialize

SpecRT == InitRT /\ [][NextRT]_vars

\* A string that survives join and split: not empty, no whitespace in it.
IsToken(s) == s # <<>> /\ \A i \in 1..Len(s) : s[i] \notin Whitespace

\* C1 as stated: serialize on an empty node then deserialize returns S, for
\* every sequence of strings and every variant.
C1_AsStated == rt.pc = "done" => rt.ret = Present(rt.S)

\* C1 (as amended): the Text and Attribute variants return S when every string
\* of S is non-empty and free of whitespace; the Element variant returns S when
\* S is not empty and absent when S is empty.
C1_RoundTrip ==
    rt.pc = "done" =>
        /\ (rt.variant \in {"Text", "Attribute"} /\ \A i \in 1..Len(rt.S) : IsToken(rt.S[i]))
               => rt.ret = Present(rt.S)
        /\ (rt.variant = "Element" /\ rt.S # <<>>) => rt.ret = Present(rt.S)
        /\ (rt.variant = "Element" /\ rt.S = <<>>) => rt.ret = Absent

C1_Witness ==
    /\ rt.pc = "done"
    /\ rt.variant = "Attribute"
    /\ rt.S = <<<<"a">>, <<"a", "a">>>>
    /\ rt.ret = Present(rt.S)
    /\ node = EmptyNode

\* ------------------------------------------------------------- factory
Locations == {"ELEMENT", "ATTRIBUTE", "MISSING"}
\* PydanticShapeType.from_shape(item_field.shape)
ShapeTypes == {"SCALAR", "HOMOGENEOUS", "HETEROGENEOUS", "UNKNOWN"}
\* model_field.type_: a scalar class, a BaseXmlModel subclass, a tuple subclass
\* (a fixed-size tuple type that is a class), or a typing construct that is no
\* class at all.
TypeKinds == {"scalar", "model", "tuple", "nonclass"}

MsgNested == "collection elements can't be of collection type"
MsgRoot == "root model collections should be marked as elements"
MsgInline == "Inline list value should be of scalar type"

ModelFieldError(model, model_field, message) ==
    [kind |-> "ModelFieldError", model |-> model.name, field |-> model_field.name,
     message |-> message]
TypeError == [kind |-> "TypeError"]
AssertionError == [kind |-> "AssertionError"]
Built(variant) == [kind |-> "Serializer", variant |-> variant]

isclass(type_) == type_ # "nonclass"

\* TextSerializer.__init__: issubclass on a type that is no class raises TypeError.
TextSerializer_init(model, model_field) ==
    IF isclass(model_field.type_) /\ model_field.type_ = "model"
    THEN ModelFieldError(model, model_field, MsgInline)
    ELSE IF ~isclass(model_field.type_)
    THEN TypeError
    ELSE IF model_field.type_ = "tuple"
    THEN ModelFieldError(model, model_field, MsgInline)
    ELSE Built("Text")

\* AttributeSerializer.__init__
AttributeSerializer_init(model, model_field) ==
    IF ~isclass(model_field.type_)
    THEN TypeError
    ELSE IF model_field.type_ = "model"
    THEN ModelFieldError(model, model_field, MsgInline)
    ELSE Built("Attribute")

\* ElementSerializer.__init__: the generic builder either returns the inner
\* serializer of the item field (which carries the collection field's name) or
\* raises its own error.
ElementSerializer_init(model, model_field, inner_ok) ==
    IF inner_ok
    THEN Built("Element")
    ELSE [kind |-> "InnerBuildError", model |-> model.name, field |-> model_field.name]

\* build with the root-model check ahead of the nested-collection check
build_RootCheckFirst(model, model_field, field_location, inner_ok) ==
    IF model.custom_root_type /\ field_location = "MISSING"
    THEN [out |-> ModelFieldError(model, model_field, MsgRoot), constructed |-> <<>>]
    ELSE IF model_field.item_shape \in {"HOMOGENEOUS", "HETEROGENEOUS"}
    THEN [out |-> ModelFieldError(model, model_field, MsgNested), constructed |-> <<>>]
    ELSE CASE field_location = "ELEMENT" ->
                [out |-> ElementSerializer_init(model, model_field, inner_ok),
                 constructed |-> <<"ElementSerializer", "inner">>]
           [] field_location = "MISSING" ->
                [out |-> TextSerializer_init(model, model_field),
                 constructed |-> <<"TextSerializer">>]
           [] field_location = "ATTRIBUTE" ->
                [out |-> AttributeSerializer_init(model, model_field),
                 constructed |-> <<"AttributeSerializer">>]
           [] OTHER -> [out |-> AssertionError, constructed |-> <<>>]

\* The field descriptor has exactly one item sub-field (the two assertions at
\* the head of build hold), whose shape and type are item_shape and type_.
\* HomogeneousSerializerFactory.build; `constructed` lists the constructors
\* entered, in order.
build(model, model_field, field_location, inner_ok) ==
    IF model_field.item_shape \in {"HOMOGENEOUS", "HETEROGENEOUS"}
    THEN [out |-> ModelFieldError(model, model_field, MsgNested), constructed |-> <<>>]
    ELSE IF model.custom_root_type /\ field_location = "MISSING"
    THEN [out |-> ModelFieldError(model, model_field, MsgRoot), constructed |-> <<>>]
    ELSE CASE field_location = "ELEMENT" ->
                [out |-> ElementSerializer_init(model, model_field, inner_ok),
                 constructed |-> <<"ElementSerializer", "inner">>]
           [] field_location = "MISSING" ->
                [out |-> TextSerializer_init(model, model_field),
                 constructed |-> <<"TextSerializer">>]
           [] field_location = "ATTRIBUTE" ->
                [out |-> AttributeSerializer_init(model, model_field),
                 constructed |-> <<"AttributeSerializer">>]
           [] OTHER -> [out |-> AssertionError, constructed |-> <<>>]

ModelNames == {"Model", "Other"}
FieldNames == {"values", "codes"}
BuildInputs ==
    {[pc |-> "start",
      model |-> [name |-> m, custom_root_type |-> r],
      model_field |-> [name |-> f, type_ |-> t, item_shape |-> sh],
      field_location |-> loc] :
        m \in ModelNames, r \in BOOLEAN, f \in FieldNames, t \in TypeKinds,
        sh \in ShapeTypes, loc \in Locations}

InitBuild ==
    /\ node = EmptyNode
    /\ last = NoLast
    /\ rt = RtIdle
    /\ bld \in BuildInputs
    /\ lp = LpIdle

Build ==
    /\ bld.pc = "start"
    /\ \E inner_ok \in BOOLEAN :
          LET r == build(bld.model, bld.model_field, bld.field_location, inner_ok)
          IN bld' = [pc |-> "done", model |-> bld.model, model_field |-> bld.model_field,
                     field_location |-> bld.field_location,
                     out |-> r.out, constructed |-> r.constructed]
    /\ UNCHANGED <<node, last, rt, lp>>

NextBuild == Build

SpecBuild == InitBuild /\ [][NextBuild]_vars

\* C5 as stated: on a document-root model build rejects every collection whose
\* location is not ELEMENT with ModelFieldError and returns no serializer.
C5_AsStated ==
    (bld.pc = "done" /\ bld.model.custom_root_type) =>
        /\ bld.field_location # "ELEMENT" => bld.out.kind = "ModelFieldError"
        /\ bld.out.kind = "Serializer" => bld.field_location = "ELEMENT"

\* C6: whatever the location and whether or not the model is a root model, a
\* collection-shaped item makes build fail with ModelFieldError naming the
\* model, the field and "collection elements can't be of collection type",
\* before any variant constructor or inner build runs.
C6_NestedRejectedFirst ==
    (bld.pc = "done" /\ bld.model_field.item_shape \in {"HOMOGENEOUS", "HETEROGENEOUS"}) =>
        /\ bld.out = [kind |-> "ModelFieldError", model |-> bld.model.name,
                      field |-> bld.model_field.name, message |-> MsgNested]
        /\ bld.constructed = <<>>

C6_Witness ==
    /\ bld.pc = "done"
    /\ bld.model.custom_root_type
    /\ bld.field_location = "MISSING"
    /\ bld.model_field.item_shape = "HETEROGENEOUS"
    /\ bld.out.kind = "ModelFieldError"
    /\ bld.out.message = MsgNested

\* C7 as stated: where build reaches the variant constructor, location
\* ATTRIBUTE fails with "Inline list value should be of scalar type" exactly as
\* location MISSING does, namely when the item type is a model type or a tuple
\* type.
C7_AsStated ==
    (bld.pc = "done" /\ bld.field_location \in {"ATTRIBUTE", "MISSING"}
        /\ bld.constructed # <<>>) =>
        (bld.out = [kind |-> "ModelFieldError", model |-> bld.model.name,
                    field |-> bld.model_field.name, message |-> MsgInline]
            <=> bld.model_field.type_ \in {"model", "tuple"})

\* ------------------------------------------------------------- the decode loop
\* ElementSerializer.deserialize one inner call at a time.  The inner serializer
\* is fixed at construction: "consuming" is inner_deserialize above, "peeking"
\* returns the next matching child's value and removes nothing (it removes at
\* most one child per call, but not one per value).
inner_peek(element) ==
    IF element.children # <<>> /\ Head(element.children).tag = element_name
    THEN [value |-> Head(element.children).text, node |-> element]
    ELSE [value |-> None, node |-> element]

InnerKinds == {"consuming", "peeking"}

inner_call(kind, element) ==
    IF kind = "consuming" THEN inner_deserialize(element) ELSE inner_peek(element)

LoopChildren ==
    SeqsUpTo({[tag |-> element_name, text |-> <<"a">>],
              [tag |-> element_name, text |-> <<"a", "a">>],
              [tag |-> OtherTag, text |-> <<>>]}, MaxLoopChildren)

InitLoop ==
    /\ node \in {[EmptyNode EXCEPT !.children = c] : c \in LoopChildren}
    /\ last = NoLast
    /\ rt = RtIdle
    /\ bld = BldIdle
    /\ lp \in {[pc |-> "start", kind |-> k, present |-> p, init |-> <<>>,
                result |-> <<>>, log |-> <<>>, ret |-> Absent] :
                  k \in InnerKinds, p \in BOOLEAN}

\* `if element is None: return None` / `result = []`
DesEnter ==
    /\ lp.pc = "start"
    /\ lp' = IF lp.present
             THEN [lp EXCEPT !.pc = "loop", !.init = node.children]
             ELSE [lp EXCEPT !.pc = "done", !.init = node.children, !.ret = Absent]
    /\ UNCHANGED <<node, last, rt, bld>>

\* one evaluation of the while condition, and the append if it holds
DesCall ==
    /\ lp.pc = "loop"
    /\ Len(lp.log) < MaxCalls
    /\ LET r == inner_call(lp.kind, node)
       IN /\ node' = r.node
          /\ lp' = IF LoopContinues(r.value)
                   THEN [lp EXCEPT !.log = Append(@, r.value), !.result = Append(@, r.value)]
                   ELSE [lp EXCEPT !.log = Append(@, r.value), !.pc = "return"]
    /\ UNCHANGED <<last, rt, bld>>

DesReturn ==
    /\ lp.pc = "return"
    /\ lp' = [lp EXCEPT !.pc = "done", !.ret = ReturnOf(lp.result)]
    /\ UNCHANGED <<node, last, rt, bld>>

NextLoop == DesEnter \/ DesCall \/ DesReturn

SpecLoop == InitLoop /\ [][NextLoop]_vars

MatchingCount(children) == Cardinality({i \in 1..Len(children) : children[i].tag = element_name})

\* C3: on a present node Element deserialize returns the inner results in call
\* order up to the first absent one, makes no inner call after it, leaves in the
\* node every child from the point where the inner serializer reported absent,
\* and returns absent when the first inner call is absent.
C3_UntilFirstAbsent ==
    LET n == Len(lp.log)
    IN /\ \A i \in 1..(n - 1) : lp.log[i] # None
       /\ lp.pc \in {"return", "done"} /\ lp.present => n >= 1 /\ lp.log[n] = None
       /\ (lp.pc = "done" /\ lp.present) =>
             /\ lp.ret = IF n = 1 THEN Absent ELSE Present(SubSeq(lp.log, 1, n - 1))
             /\ lp.kind = "consuming" => node.children = SubSeq(lp.init, n, Len(lp.init))

C3_Witness ==
    /\ lp.pc = "done"
    /\ lp.present
    /\ lp.kind = "consuming"
    /\ lp.init = <<[tag |-> element_name, text |-> <<"a", "a">>],
                   [tag |-> OtherTag, text |-> <<>>],
                   [tag |-> element_name, text |-> <<"a">>]>>
    /\ lp.ret = Present(<<<<"a", "a">>>>)
    /\ Len(node.children) = 2

\* C10 as stated: with an inner serializer that removes at most one matching
\* child per call, the inner calls number at most the matching children plus one.
C10_AsStated == lp.pc # "idle" => Len(lp.log) <= MatchingCount(lp.init) + 1

\* The code is synchronous: a call that has started runs its next step.
SpecLoopFair == SpecLoop /\ WF_vars(NextLoop)

CallsBounded ==
    (lp.pc \in {"loop", "return", "done"} /\ lp.kind = "consuming") =>
        /\ Len(lp.log) + MatchingCount(node.children) <= MatchingCount(lp.init) + 1
        /\ Len(lp.log) <= MatchingCount(lp.init) + 1

\* C10 (as amended): with an inner serializer that removes one matching child
\* each time it returns a value, Element deserialize terminates, and the inner
\* calls made plus the matching children left never exceed the matching
\* children at the start plus one.
C10_Terminates ==
    /\ []CallsBounded
    /\ (lp.pc = "start" /\ lp.kind = "consuming") ~> (lp.pc = "done")

C10_Witness ==
    /\ lp.pc = "done"
    /\ lp.kind = "consuming"
    /\ MatchingCount(lp.init) = 2
    /\ Len(lp.log) = 3
    /\ node.children = <<>>

====
